---- MODULE Spec2Model ----
(***************************************************************************)
(* The CellularAutomata component (src/components/CellularAutomata.jsx)    *)
(* as a state machine: the rule evaluator and boundary resolver as         *)
(* operators, the history manager (generateInitialGrid,                    *)
(* applyEffectToStaticGrid, the animate updater) and the React effects     *)
(* that reconcile prop changes as actions.                                 *)
(*                                                                         *)
(* A row is a sequence of cells; JS index i is TLA+ index i + 1.  A JS     *)
(* reference that may be null (prevLineRef.current, prevRow) is a sequence *)
(* of at most one row: << >> is null, <<row>> is the row.                  *)
(***************************************************************************)
EXTENDS Integers, Sequences, FiniteSets, TLC

\* ------------------------------------------------------------------ bounds

\* Animation ticks are accepted while totalLines < MaxTotalLines.
MaxTotalLines == 4

\* In the behaviours of the group "window" (gridSize changes down to 1, no
\* toggle of reversible), animation ticks are accepted while
\* totalLines < MaxWindowLines.
MaxWindowLines == 5

\* The rule evaluator is applied to rows of up to MaxRowWidth cells.
MaxRowWidth == 3

\* The history manager's functions are applied to histories of up to
\* MaxHistoryLen rows of up to MaxHistoryWidth cells.
MaxHistoryLen == 3
MaxHistoryWidth == 2

\* generateInitialGrid is applied under layouts of up to MaxSeedWidth columns.
MaxSeedWidth == 5

\* ----------------------------------------------------- JS values and rows

\* The value of an out-of-range array read (row[i] with no such index).
undefined == 0 - 1

\* row[i] for a JS index i.
At(row, i) == IF i >= 0 /\ i < Len(row) THEN row[i + 1] ELSE undefined

\* ToInt32 of a cell value, as applied by <<, | and ^ : undefined becomes 0.
ToInt32(v) == IF v = undefined THEN 0 ELSE v

\* Fault variant of Xor: the sum.
XorAsSum(a, b) == a + b

\* Fault variant of Xor: bitwise or.
XorAsOr(a, b) == IF a + b > 0 THEN 1 ELSE 0

\* a ^ b on bits
Xor(a, b) == (a + b) % 2

Pow2(n) == IF n = 0 THEN 1 ELSE IF n = 1 THEN 2 ELSE IF n = 2 THEN 4
           ELSE IF n = 3 THEN 8 ELSE IF n = 4 THEN 16 ELSE IF n = 5 THEN 32
           ELSE IF n = 6 THEN 64 ELSE 128

Min(a, b) == IF a < b THEN a ELSE b
Max(a, b) == IF a > b THEN a ELSE b

\* All rows of exactly w binary cells.
Rows(w) == [1..w -> {0, 1}]

\* ------------------------------------------------------------ configuration

BOUNDARY_MODES ==
    <<"wrap", "fixed0", "fixed1", "reflect", "randomBoundary", "gradientBoundary">>

\* BOUNDARY_MODES[boundaryIndex]; an index outside the table reads undefined.
boundaryMode(boundaryIndex) ==
    IF boundaryIndex >= 0 /\ boundaryIndex < Len(BOUNDARY_MODES)
    THEN BOUNDARY_MODES[boundaryIndex + 1] ELSE "undefined"

gridHeight(p) == p.gridSize

\* Math.floor(gridSize * (isLargeScreen ? 1.33 : 0.75)).
gridWidth(p) == IF p.isLargeScreen THEN (p.gridSize * 133) \div 100
                ELSE (p.gridSize * 75) \div 100

\* The keys of currentConfig.
ConfigKeys == {"gridSize", "ruleNumber", "reversible", "mutationProbability",
               "invertColors", "randomInitial", "boundaryIndex", "colorIndex"}

\* Fault variant of currentConfig: mutationProbability left out.
currentConfigWithoutMutation(p) ==
    [k \in ConfigKeys \ {"mutationProbability"} |-> p[k]]

currentConfig(p) == [k \in ConfigKeys |-> p[k]]

\* The props that decide how rows are computed.
evolutionConfig(p) ==
    <<p.gridSize, p.isLargeScreen, p.ruleNumber, p.reversible,
      p.mutationProbability, p.randomInitial, p.boundaryIndex>>

\* ------------------------------------------------------------ random draws

\* One row's randomness: whether Math.random() < mutationProbability came
\* out true, the substituted rule Math.floor(Math.random() * 256), and the
\* two randomBoundary lookups a row makes outside [0, width): the left
\* neighbour of column 0 and the right neighbour of the last column.
\* mutationProbability is held in percent.
MutateOutcomes(mutationProbability) ==
    IF mutationProbability <= 0 THEN {FALSE}
    ELSE IF mutationProbability >= 100 THEN {TRUE} ELSE BOOLEAN

RowDraws(p, rules) ==
    [mutate : MutateOutcomes(p.mutationProbability),
     rule   : IF p.mutationProbability > 0 THEN rules ELSE {0},
     lb     : IF boundaryMode(p.boundaryIndex) = "randomBoundary" THEN {0, 1} ELSE {0},
     rb     : IF boundaryMode(p.boundaryIndex) = "randomBoundary" THEN {0, 1} ELSE {0}]

\* ------------------------------------------------- rule evaluator (pure)

getMutatedRule(mutationProbability, d, baseRule) ==
    IF mutationProbability > 0 /\ d.mutate THEN d.rule ELSE baseRule

\* Fault variant of reflectIndex: an index past the right edge is clamped
\* to the edge instead of reflected.
reflectIndexClamped(pos, width) ==
    LET p1 == IF pos < 0 THEN 0 - pos ELSE pos
    IN  Max(0, Min(p1, width - 1))

\* The index the reflect mode reads: reflected about the nearest edge, then
\* clamped into range.
reflectIndex(pos, width) ==
    LET p1 == IF pos < 0 THEN 0 - pos ELSE pos
        p2 == IF p1 >= width THEN 2 * (width - 1) - p1 ELSE p1
    IN  Max(0, Min(p2, width - 1))

\* Fault variant of neighborByMode: wrap reads row[pos] without the modulo.
neighborByModeUnwrapped(mode, rnd, row, pos, width) ==
    CASE mode = "fixed0" -> IF pos < 0 \/ pos >= width THEN 0 ELSE At(row, pos)
      [] mode = "fixed1" -> IF pos < 0 \/ pos >= width THEN 1 ELSE At(row, pos)
      [] mode = "reflect" -> At(row, reflectIndex(pos, width))
      [] mode = "randomBoundary" ->
            IF pos < 0 \/ pos >= width THEN rnd ELSE At(row, pos)
      [] mode = "gradientBoundary" ->
            IF pos < 0 THEN 0 ELSE IF pos >= width THEN 1 ELSE At(row, pos)
      [] OTHER -> At(row, pos)

\* The neighbour lookup under the mode named mode; rnd is the outcome of
\* (Math.random() < 0.5 ? 1 : 0) for this lookup.
neighborByMode(mode, rnd, row, pos, width) ==
    CASE mode = "wrap" -> At(row, (pos + width) % width)
      [] mode = "fixed0" -> IF pos < 0 \/ pos >= width THEN 0 ELSE At(row, pos)
      [] mode = "fixed1" -> IF pos < 0 \/ pos >= width THEN 1 ELSE At(row, pos)
      [] mode = "reflect" -> At(row, reflectIndex(pos, width))
      [] mode = "randomBoundary" ->
            IF pos < 0 \/ pos >= width THEN rnd ELSE At(row, pos)
      [] mode = "gradientBoundary" ->
            IF pos < 0 THEN 0 ELSE IF pos >= width THEN 1 ELSE At(row, pos)
      [] OTHER -> At(row, (pos + width) % width)

\* Fault variant of getNeighbor: the two ends of gradientBoundary exchanged.
getNeighborGradientSwapped(boundaryIndex, rnd, row, pos, width) ==
    IF boundaryMode(boundaryIndex) = "gradientBoundary" /\ (pos < 0 \/ pos >= width)
    THEN (IF pos < 0 THEN 1 ELSE 0)
    ELSE neighborByMode(boundaryMode(boundaryIndex), rnd, row, pos, width)

\* Fault variant of getNeighbor: an index outside the table reads as fixed0.
getNeighborUnknownFixed0(boundaryIndex, rnd, row, pos, width) ==
    IF boundaryMode(boundaryIndex) = "undefined"
    THEN neighborByMode("fixed0", rnd, row, pos, width)
    ELSE neighborByMode(boundaryMode(boundaryIndex), rnd, row, pos, width)

getNeighbor(boundaryIndex, rnd, row, pos, width) ==
    neighborByMode(boundaryMode(boundaryIndex), rnd, row, pos, width)

\* Fault variant of rulePattern: the neighbours' weights exchanged.
rulePatternMirrored(left, center, right) ==
    ToInt32(right) * 4 + ToInt32(center) * 2 + ToInt32(left)

\* (left << 2) | (center << 1) | right
rulePattern(left, center, right) ==
    ToInt32(left) * 4 + ToInt32(center) * 2 + ToInt32(right)

\* ((currentRule >> pattern) & 1) === 1 ? 1 : 0
ruleBit(currentRule, pattern) == (currentRule \div Pow2(pattern)) % 2

\* Fault variant of computeNextLineWithRule: the mutation decided for each
\* cell, the odd columns keeping the base rule.
computeNextLineWithRulePerCell(p, d, currentRow, prevRow, useReversible) ==
    LET width == gridWidth(p)
        cell(x) ==
            LET left == getNeighbor(p.boundaryIndex, d.lb, currentRow, x - 1, width)
                center == At(currentRow, x)
                right == getNeighbor(p.boundaryIndex, d.rb, currentRow, x + 1, width)
                currentRule == IF x % 2 = 0
                               THEN getMutatedRule(p.mutationProbability, d, p.ruleNumber)
                               ELSE p.ruleNumber
                nextState == ruleBit(currentRule, rulePattern(left, center, right))
            IN  IF useReversible /\ prevRow # << >>
                THEN Xor(nextState, ToInt32(At(prevRow[1], x)))
                ELSE nextState
    IN  [i \in 1..width |-> cell(i - 1)]

\* prevRow is << >> (null) or <<row>>.
computeNextLineWithRule(p, d, currentRow, prevRow, useReversible) ==
    LET width == gridWidth(p)
        currentRule == getMutatedRule(p.mutationProbability, d, p.ruleNumber)
        cell(x) ==
            LET left == getNeighbor(p.boundaryIndex, d.lb, currentRow, x - 1, width)
                center == At(currentRow, x)
                right == getNeighbor(p.boundaryIndex, d.rb, currentRow, x + 1, width)
                nextState == ruleBit(currentRule, rulePattern(left, center, right))
            IN  IF useReversible /\ prevRow # << >>
                THEN Xor(nextState, ToInt32(At(prevRow[1], x)))
                ELSE nextState
    IN  [i \in 1..width |-> cell(i - 1)]

\* The rows one evaluation can return, over the row's random draws.
NextRows(p, rules, currentRow, prevRow, useReversible) ==
    {computeNextLineWithRule(p, d, currentRow, prevRow, useReversible) :
        d \in RowDraws(p, rules)}

\* Fault variant of InitialRows: the cell on at Math.floor((width - 1) / 2).
InitialRowsLeftOfCentre(width, useRandom) ==
    IF useRandom THEN Rows(width)
    ELSE {[i \in 1..width |-> IF i - 1 = (width - 1) \div 2 THEN 1 ELSE 0]}

\* Fault variant of InitialRows: without useRandom, one cell on at any index.
InitialRowsAnyCell(width, useRandom) ==
    IF useRandom THEN Rows(width)
    ELSE {[i \in 1..width |-> IF i = k THEN 1 ELSE 0] : k \in 1..width}

\* useRandom ? random cells : a single cell on at Math.floor(width / 2).
InitialRows(width, useRandom) ==
    IF useRandom THEN Rows(width)
    ELSE {[i \in 1..width |-> IF i - 1 = width \div 2 THEN 1 ELSE 0]}

\* ------------------------------------------------ history manager (pure)

\* The grids the loop of generateInitialGrid / applyEffectToStaticGrid can
\* still produce from grid, which holds y rows, up to n rows; prevRow is the
\* loop's prevRow variable.
RECURSIVE GrowGrid(_, _, _, _, _, _)
GrowGrid(p, rules, useReversible, grid, prevRow, n) ==
    IF Len(grid) >= n THEN {grid}
    ELSE LET currentRow == grid[Len(grid)] IN
         UNION {GrowGrid(p, rules, useReversible, Append(grid, nextRow),
                         IF useReversible THEN <<currentRow>> ELSE prevRow, n) :
                nextRow \in NextRows(p, rules, currentRow, prevRow, useReversible)}

\* Fault variant of generateInitialGrid: the seed row chosen by the negation
\* of randomInitial.
generateInitialGridInvertedSeed(p, rules) ==
    UNION {GrowGrid(p, rules, p.reversible, <<firstRow>>, << >>, gridHeight(p)) :
           firstRow \in InitialRows(gridWidth(p), ~p.randomInitial)}

generateInitialGrid(p, rules) ==
    UNION {GrowGrid(p, rules, p.reversible, <<firstRow>>, << >>, gridHeight(p)) :
           firstRow \in InitialRows(gridWidth(p), p.randomInitial)}

\* Fault variant of applyEffectToStaticGrid: the first two rows are kept.
applyEffectKeepingTwoRows(p, rules, currentGrid, applyReversible, applyRandom) ==
    IF Len(currentGrid) <= 1 THEN {currentGrid}
    ELSE GrowGrid(p, rules, applyReversible, <<currentGrid[1], currentGrid[2]>>,
                  IF applyReversible THEN <<currentGrid[1]>> ELSE << >>,
                  Len(currentGrid))

\* Fault variant of applyEffectToStaticGrid: the first row taken from
\* getInitialRow instead of the current grid.
applyEffectReseeded(p, rules, currentGrid, applyReversible, applyRandom) ==
    IF Len(currentGrid) = 0 THEN {currentGrid}
    ELSE UNION {GrowGrid(p, rules, applyReversible, <<firstRow>>, << >>,
                         Len(currentGrid)) :
                firstRow \in InitialRows(gridWidth(p), applyRandom)}

applyEffectToStaticGrid(p, rules, currentGrid, applyReversible, applyRandom) ==
    IF Len(currentGrid) = 0 THEN {currentGrid}
    ELSE GrowGrid(p, rules, applyReversible, <<currentGrid[1]>>, << >>, Len(currentGrid))

\* ------------------------------------------------------ the props' domains

GridSizes == {1, 2, 3}
RuleNumbers == {30, 110}
MutationProbabilities == {0, 100}
BoundaryIndices == {0, 1}
ColorIndices == {0, 1}
PlaySpeeds == {0, 2}

\* The substituted rule numbers the controller specification draws from
\* (Math.floor(Math.random() * 256) ranges over 0..255).
MutationRules == {0, 255}

Props == [gridSize : GridSizes, ruleNumber : RuleNumbers, reversible : BOOLEAN,
          mutationProbability : MutationProbabilities, invertColors : BOOLEAN,
          randomInitial : BOOLEAN, boundaryIndex : BoundaryIndices,
          colorIndex : ColorIndices, isLargeScreen : BOOLEAN,
          playSpeed : PlaySpeeds, isAnimating : BOOLEAN, shouldReset : BOOLEAN]

\* The props of the first render: a grid of three rows on a narrow layout,
\* rule 110, the defaults for the rest, under any reversible and isAnimating.
InitialProps ==
    {p \in Props :
        /\ ~p.randomInitial
        /\ p.gridSize = 3 /\ p.ruleNumber = 110
        /\ p.mutationProbability = 0 /\ ~p.invertColors /\ p.boundaryIndex = 0
        /\ p.colorIndex = 0 /\ ~p.isLargeScreen /\ p.playSpeed = 2
        /\ ~p.shouldReset}

\* Besides reversible, isAnimating and shouldReset, the parent changes the
\* props of one group in a behaviour; Init draws the group.
Scopes == {"randomInitial", "gridSize", "ruleNumber", "mutationProbability",
           "boundaryIndex", "palette", "playSpeed", "isLargeScreen",
           "window"}

\* Time advances by TimeStep ms between animation frames; elapsed times are
\* kept up to MaxElapsed ms, the largest frame interval.
TimeStep == 500
MaxElapsed == 1000

\* ----------------------------------------------------------------- state

VARIABLES
    phase,              \* "init" before mount, "mounted", "unmounted"
    props,              \* the props of the last render
    state,              \* useState: [grid, totalLines, bufferedLines]
    hasEverAnimated,    \* useState
    prevLineRef,        \* << >> (null) or <<row>>
    lastEffectStateRef, \* [reversible, randomInitial]
    prevConfigRef,      \* currentConfig of the previous render
    configChanged,      \* the useMemo value of the last render
    animationRef,       \* 0 (null) or a requestAnimationFrame handle
    frames,             \* pending requestAnimationFrame callbacks
    lastEvent,          \* history: the name of the last event
    gen,                \* history: [height, ticks, windowKept, rowsKept] since the last regeneration
    configFixed,        \* history: no evolution prop changed since the mount
    scope,              \* the group of props the parent changes
    call                \* the pure-function specifications' call record

vars == <<phase, props, state, hasEverAnimated, prevLineRef, lastEffectStateRef,
          prevConfigRef, configChanged, animationRef, frames, lastEvent, gen,
          configFixed, scope, call>>

\* The component instance's mutable part, as one record.
Inst == [state |-> state, hasEverAnimated |-> hasEverAnimated,
         prevLineRef |-> prevLineRef, lastEffectStateRef |-> lastEffectStateRef,
         prevConfigRef |-> prevConfigRef, configChanged |-> configChanged,
         animationRef |-> animationRef, frames |-> frames, gen |-> gen]

SetInst(c) ==
    /\ state' = c.state
    /\ hasEverAnimated' = c.hasEverAnimated
    /\ prevLineRef' = c.prevLineRef
    /\ lastEffectStateRef' = c.lastEffectStateRef
    /\ prevConfigRef' = c.prevConfigRef
    /\ configChanged' = c.configChanged
    /\ animationRef' = c.animationRef
    /\ frames' = c.frames
    /\ gen' = c.gen

NoCall == [op |-> "none"]

\* The state a full regeneration sets: {grid, totalLines: gridHeight,
\* bufferedLines: []}.  lastUpdate (Date.now()) and scrollRef are written
\* and never read; they are left out.
FreshState(p, grid) ==
    [grid |-> grid, totalLines |-> gridHeight(p), bufferedLines |-> << >>]

\* ------------------------------------------- hook dependencies of a render

\* useCallback identities change exactly when their dependency values do.
computeNextLineWithRuleDeps(p) ==
    <<gridWidth(p), p.ruleNumber, p.mutationProbability, p.boundaryIndex>>

generateInitialGridDeps(p) ==
    <<gridWidth(p), gridHeight(p), p.randomInitial, p.reversible,
      computeNextLineWithRuleDeps(p)>>

computeNextLineDeps(p) == <<p.reversible, computeNextLineWithRuleDeps(p)>>

\* The props half of each effect's dependency array (state.grid,
\* hasEverAnimated and configChanged are compared separately).
effectsChangedEffectDeps(p) ==
    <<p.reversible, p.randomInitial, p.isAnimating, p.shouldReset,
      computeNextLineWithRuleDeps(p), generateInitialGridDeps(p)>>

resetEffectDeps(p) ==
    <<p.shouldReset, generateInitialGridDeps(p), gridHeight(p), p.reversible,
      p.randomInitial>>

configChangedEffectDeps(p) ==
    <<p.isAnimating, p.shouldReset, generateInitialGridDeps(p), gridHeight(p)>>

animationEffectDeps(p) ==
    <<p.isAnimating, p.playSpeed, gridHeight(p), computeNextLineDeps(p)>>

\* What the animate closure reads of the render that created it.
ClosureKeys == {"isAnimating", "playSpeed", "gridSize", "isLargeScreen",
                "reversible", "ruleNumber", "mutationProbability", "boundaryIndex"}

animateClosure(p) == [k \in ClosureKeys |-> p[k]]

\* requestAnimationFrame's handle: handles are only compared with each
\* other, so the smallest one not pending stands for the next fresh one.
RECURSIVE FreshHandleFrom(_, _)
FreshHandleFrom(fs, n) ==
    IF \E f \in fs : f.id = n THEN FreshHandleFrom(fs, n + 1) ELSE n

requestAnimationFrame(fs) == FreshHandleFrom(fs, 1)

\* Fault variant of cancelAnimationFrame: the cleanup cancels a handle that
\* is not the pending one.
cancelAnimationFrameStale(fs, handle) ==
    IF handle # 0 THEN {f \in fs : f.id # handle + 1} ELSE fs

\* Fault variant of cancelAnimationFrame: the cleanup cancels nothing.
cancelAnimationFrameIgnored(fs, handle) == fs

\* if (animationRef.current) cancelAnimationFrame(animationRef.current)
cancelAnimationFrame(fs, handle) ==
    IF handle # 0 THEN {f \in fs : f.id # handle} ELSE fs

\* ------------------------------------------------- one render and commit

\* reversible or randomInitial differ from the recorded baseline.
effectsChanged(p, c) ==
    \/ p.reversible # c.lastEffectStateRef.reversible
    \/ p.randomInitial # c.lastEffectStateRef.randomInitial

\* Fault variant of effectsChangedEffectFires: the isAnimating test left out.
effectsChangedEffectFiresAnimating(p, c) ==
    /\ ~p.shouldReset
    /\ Len(c.state.grid) > 0
    /\ effectsChanged(p, c)

\* The effects-changed effect acts.
effectsChangedEffectFires(p, c) ==
    /\ ~p.isAnimating /\ ~p.shouldReset
    /\ Len(c.state.grid) > 0
    /\ effectsChanged(p, c)

\* The grids the effects-changed effect can set.
effectsChangedEffectGrids(p, c) ==
    IF c.hasEverAnimated
    THEN applyEffectToStaticGrid(p, MutationRules, c.state.grid,
                                 p.reversible, p.randomInitial)
    ELSE generateInitialGrid(p, MutationRules)

\* Fault variant of resetEffectRefs: prevLineRef.current left as it is.
resetEffectRefsKeepingMemo(p, c) ==
    [prevLineRef |-> c.prevLineRef,
     lastEffectStateRef |-> [reversible |-> p.reversible,
                             randomInitial |-> p.randomInitial]]

\* The refs after the reset effect acted.
resetEffectRefs(p, c) ==
    [prevLineRef |-> << >>,
     lastEffectStateRef |-> [reversible |-> p.reversible,
                             randomInitial |-> p.randomInitial]]

\* Fault variant of configChangedEffectFires: the isAnimating test left out.
configChangedEffectFiresAnimating(p, cc) ==
    ~p.shouldReset /\ cc

\* The config-changed effect acts; cc is this render's configChanged.
configChangedEffectFires(p, cc) ==
    ~p.isAnimating /\ ~p.shouldReset /\ cc

\* Fault variant of setHasEverAnimated: the flag follows the animation.
setHasEverAnimatedWhileRunning(c, start) == start

\* hasEverAnimated after the animation effect; start says whether the effect
\* ran with isAnimating = true and called setHasEverAnimated(true).
setHasEverAnimated(c, start) == c.hasEverAnimated \/ start

\* The component rendered with props p; q are the props of the previous
\* render, c the instance before the render.  gridChanged / heaChanged say
\* whether state.grid / hasEverAnimated differ from the previous render's.
\* The effects run in declaration order, each only when a dependency
\* changed (all of them on mount); the queued state updates are applied in
\* order afterwards.  The result is the set of outcomes over the random
\* draws: [c, stateChanged, heaChanged].  c.gen is history: the gridHeight
\* of the last full regeneration, the ticks accepted since, whether
\* gridHeight has been that of the regeneration in every render since, and
\* whether no applyEffectToStaticGrid result has replaced the grid since.
Commit(p, q, c, gridChanged, heaChanged, isMount) ==
    LET cc == currentConfig(p) # c.prevConfigRef
        \* effects-changed effect
        run2 == isMount \/ gridChanged \/ heaChanged
                \/ effectsChangedEffectDeps(p) # effectsChangedEffectDeps(q)
        fire2 == run2 /\ effectsChangedEffectFires(p, c)
        G2 == IF fire2 THEN effectsChangedEffectGrids(p, c) ELSE {<< >>}
        \* reset effect
        run3 == isMount \/ resetEffectDeps(p) # resetEffectDeps(q)
        fire3 == run3 /\ p.shouldReset
        G3 == IF fire3 THEN generateInitialGrid(p, MutationRules) ELSE {<< >>}
        refs3 == IF fire3 THEN resetEffectRefs(p, c)
                 ELSE [prevLineRef |-> c.prevLineRef,
                       lastEffectStateRef |->
                           IF fire2 THEN [reversible |-> p.reversible,
                                          randomInitial |-> p.randomInitial]
                           ELSE c.lastEffectStateRef]
        \* mount effect
        fire4 == isMount
        G4 == IF fire4 THEN generateInitialGrid(p, MutationRules) ELSE {<< >>}
        \* config-changed effect
        run5 == isMount \/ cc # c.configChanged
                \/ configChangedEffectDeps(p) # configChangedEffectDeps(q)
        fire5 == run5 /\ configChangedEffectFires(p, cc)
        G5 == IF fire5 THEN generateInitialGrid(p, MutationRules) ELSE {<< >>}
        \* animation effect: the previous run's cleanup, then the new run
        run6 == isMount \/ animationEffectDeps(p) # animationEffectDeps(q)
        cleanup6 == run6 /\ ~isMount /\ q.isAnimating
        start6 == run6 /\ p.isAnimating
        fs1 == IF cleanup6 THEN cancelAnimationFrame(c.frames, c.animationRef)
               ELSE c.frames
        handle == requestAnimationFrame(fs1)
        fs2 == IF start6
               THEN fs1 \cup {[id |-> handle, p |-> animateClosure(p), elapsed |-> 0]}
               ELSE fs1
        regenerated == fire3 \/ fire4 \/ fire5 \/ (fire2 /\ ~c.hasEverAnimated)
        Result(g2, g3, g4, g5) ==
            LET s2 == IF fire2 THEN [c.state EXCEPT !.grid = g2] ELSE c.state
                s3 == IF fire3 THEN FreshState(p, g3) ELSE s2
                s4 == IF fire4 THEN FreshState(p, g4) ELSE s3
                s5 == IF fire5
                      THEN [s4 EXCEPT !.grid = g5, !.totalLines = gridHeight(p),
                                      !.bufferedLines = << >>]
                      ELSE s4
            IN  [c |-> [state |-> s5,
                        hasEverAnimated |-> setHasEverAnimated(c, start6),
                        prevLineRef |-> refs3.prevLineRef,
                        lastEffectStateRef |-> refs3.lastEffectStateRef,
                        prevConfigRef |-> currentConfig(p),
                        configChanged |-> cc,
                        animationRef |-> IF start6 THEN handle ELSE c.animationRef,
                        frames |-> fs2,
                        gen |-> IF regenerated
                                THEN [height |-> gridHeight(p), ticks |-> 0,
                                      windowKept |-> TRUE, rowsKept |-> TRUE]
                                ELSE [c.gen EXCEPT
                                        !.windowKept = @ /\ gridHeight(p) = c.gen.height,
                                        !.rowsKept = @ /\ ~fire2]],
                 stateChanged |-> fire2 \/ fire3 \/ fire4 \/ fire5,
                 heaChanged |-> start6 /\ ~c.hasEverAnimated]
    IN  {Result(g2, g3, g4, g5) : g2 \in G2, g3 \in G3, g4 \in G4, g5 \in G5}

\* Renders until no state update is left: a state update made by an effect
\* renders the component again with the same props.
RECURSIVE Settle(_, _, _, _, _, _)
Settle(p, q, c, gridChanged, heaChanged, isMount) ==
    UNION {IF r.stateChanged \/ r.heaChanged
           THEN Settle(p, p, r.c, r.stateChanged, r.heaChanged, FALSE)
           ELSE {r.c} :
           r \in Commit(p, q, c, gridChanged, heaChanged, isMount)}

\* --------------------------------------------------------------- actions


Init ==
    /\ phase = "init"
    /\ props \in InitialProps
    /\ state = [grid |-> << >>, totalLines |-> gridHeight(props),
                bufferedLines |-> << >>]
    /\ hasEverAnimated = FALSE
    /\ prevLineRef = << >>
    /\ lastEffectStateRef = [reversible |-> FALSE, randomInitial |-> FALSE]
    /\ prevConfigRef = currentConfig(props)
    /\ configChanged = FALSE
    /\ animationRef = 0
    /\ frames = {}
    /\ lastEvent = "none"
    /\ gen = [height |-> 0, ticks |-> 0, windowKept |-> TRUE, rowsKept |-> TRUE]
    /\ configFixed = TRUE
    /\ scope \in Scopes
    /\ call = NoCall

\* The first render and its effects.
Mount ==
    /\ phase = "init"
    /\ phase' = "mounted"
    /\ \E c \in Settle(props, props, Inst, FALSE, FALSE, TRUE) : SetInst(c)
    /\ lastEvent' = "Mount"
    /\ UNCHANGED <<props, configFixed, scope, call>>

\* The parent renders the component with props p.
Rerender(name, p) ==
    /\ phase = "mounted"
    /\ p # props
    /\ props' = p
    /\ \E c \in Settle(p, props, Inst, FALSE, FALSE, FALSE) : SetInst(c)
    /\ lastEvent' = name
    /\ configFixed' = (configFixed /\ evolutionConfig(p) = evolutionConfig(props))
    /\ UNCHANGED <<phase, scope, call>>

\* gridSize 1 is reached in the behaviours of the group "window" only.
SetGridSize ==
    /\ scope \in {"gridSize", "window"}
    /\ \E v \in GridSizes :
        /\ v = 1 => scope = "window"
        /\ Rerender("SetGridSize", [props EXCEPT !.gridSize = v])

SetRuleNumber ==
    /\ scope = "ruleNumber"
    /\ \E v \in RuleNumbers : Rerender("SetRuleNumber", [props EXCEPT !.ruleNumber = v])

SetMutationProbability ==
    /\ scope = "mutationProbability"
    /\ \E v \in MutationProbabilities :
        Rerender("SetMutationProbability", [props EXCEPT !.mutationProbability = v])

SetBoundaryIndex ==
    /\ scope = "boundaryIndex"
    /\ \E v \in BoundaryIndices :
        Rerender("SetBoundaryIndex", [props EXCEPT !.boundaryIndex = v])

\* reversible and/or randomInitial change, nothing else.
SetEffects ==
    \E r \in BOOLEAN, i \in BOOLEAN :
        /\ i # props.randomInitial => scope = "randomInitial"
        /\ scope # "window"
        /\ Rerender("SetEffects", [props EXCEPT !.reversible = r, !.randomInitial = i])

\* colorIndex and/or invertColors change, nothing else.
SetPalette ==
    /\ scope = "palette"
    /\ \E v \in ColorIndices, i \in BOOLEAN :
        Rerender("SetPalette", [props EXCEPT !.colorIndex = v, !.invertColors = i])

SetIsLargeScreen ==
    /\ scope = "isLargeScreen"
    /\ Rerender("SetIsLargeScreen", [props EXCEPT !.isLargeScreen = ~props.isLargeScreen])

SetPlaySpeed ==
    /\ scope = "playSpeed"
    /\ \E v \in PlaySpeeds : Rerender("SetPlaySpeed", [props EXCEPT !.playSpeed = v])

SetIsAnimating ==
    Rerender("SetIsAnimating", [props EXCEPT !.isAnimating = ~props.isAnimating])

\* handleReset: setShouldReset(true), and setShouldReset(false) a tick later.
SetShouldReset ==
    Rerender("SetShouldReset", [props EXCEPT !.shouldReset = ~props.shouldReset])

\* Fault variant of frameInterval: no fallback for playSpeed 0, 1000 / 0 being
\* Infinity (an interval no elapsed time reaches).
frameIntervalWithoutFallback(playSpeed) ==
    IF playSpeed > 0 THEN 1000 \div playSpeed ELSE MaxElapsed + 1

\* Fault variant of frameInterval: playSpeed 0 treated as no throttling.
frameIntervalUnthrottled(playSpeed) == IF playSpeed > 0 THEN 1000 \div playSpeed ELSE 0

\* const frameInterval = playSpeed > 0 ? (1000 / playSpeed) : 1000
frameInterval(playSpeed) == IF playSpeed > 0 THEN 1000 \div playSpeed ELSE 1000

\* [...bufferedLines, nextLine].slice(-gridHeight * 2)
SliceLast(seq, n) ==
    IF n = 0 \/ Len(seq) <= n THEN seq ELSE SubSeq(seq, Len(seq) - n + 1, Len(seq))

\* Fault variant of StepForward: the buffer receives the row before the new
\* one.
StepForwardBufferLagging(cl, st, nextLine) ==
    [grid |-> Append(Tail(st.grid), nextLine),
     totalLines |-> st.totalLines + 1,
     bufferedLines |-> SliceLast(Append(st.bufferedLines, st.grid[Len(st.grid)]),
                                 gridHeight(cl) * 2)]

\* Fault variant of StepForward: the buffer capped at gridHeight rows.
StepForwardShortBuffer(cl, st, nextLine) ==
    [grid |-> Append(Tail(st.grid), nextLine),
     totalLines |-> st.totalLines + 1,
     bufferedLines |-> SliceLast(Append(st.bufferedLines, nextLine),
                                 gridHeight(cl))]

\* Fault variant of StepForward: the oldest row is kept.
StepForwardKeepingOldest(cl, st, nextLine) ==
    [grid |-> Append(st.grid, nextLine),
     totalLines |-> st.totalLines + 1,
     bufferedLines |-> SliceLast(Append(st.bufferedLines, nextLine),
                                 gridHeight(cl) * 2)]

\* The setState updater of animate, with computeNextLine inlined: the new
\* state and prevLineRef.current for the row nextLine.
StepForward(cl, st, nextLine) ==
    [grid |-> Append(Tail(st.grid), nextLine),
     totalLines |-> st.totalLines + 1,
     bufferedLines |-> SliceLast(Append(st.bufferedLines, nextLine),
                                 gridHeight(cl) * 2)]

\* computeNextLine(prevLine): the rows it can return.
computeNextLine(cl, prevLine, memo) ==
    NextRows(cl, MutationRules, prevLine,
             IF cl.reversible THEN memo ELSE << >>, cl.reversible)

\* The setState updater of animate applied to the state st with
\* prevLineRef.current = memo: the outcomes [error, state, prevLineRef].
\* On an empty grid lastLine is undefined: computeNextLineWithRule reads
\* currentRow[x] of undefined, a TypeError, as soon as the row has a cell
\* (the assignment to prevLineRef.current is not reached); with gridWidth 0
\* it returns the empty row, which becomes the grid's only row.
animateUpdater(cl, st, memo) ==
    IF Len(st.grid) = 0
    THEN IF gridWidth(cl) > 0
         THEN {[error |-> TRUE, state |-> st, prevLineRef |-> memo]}
         ELSE {[error |-> FALSE,
                state |-> [grid |-> <<<< >>>>,
                           totalLines |-> st.totalLines + 1,
                           bufferedLines |->
                               SliceLast(Append(st.bufferedLines, << >>),
                                         gridHeight(cl) * 2)],
                prevLineRef |-> memo]}
    ELSE LET lastLine == st.grid[Len(st.grid)] IN
         {[error |-> FALSE,
           state |-> StepForward(cl, st, nextLine),
           prevLineRef |-> IF cl.reversible THEN <<lastLine>> ELSE memo] :
          nextLine \in computeNextLine(cl, lastLine, memo)}

\* Ticks are accepted while totalLines is below this limit: the animation
\* runs longer in the behaviours of the group "window".
TickLimit == IF scope = "window" THEN MaxWindowLines ELSE MaxTotalLines

\* A pending requestAnimationFrame callback runs: animate(currentTime).
AnimationFrame ==
    /\ phase = "mounted"
    /\ \E f \in frames :
        LET cl == f.p
            deltaTime == Min(MaxElapsed, f.elapsed + TimeStep)
            accepted == cl.isAnimating /\ deltaTime >= frameInterval(cl.playSpeed)
            rest == frames \ {f}
            handle == requestAnimationFrame(rest)
            fs == IF cl.isAnimating
                  THEN rest \cup {[id |-> handle, p |-> cl,
                                   elapsed |-> IF accepted THEN 0 ELSE deltaTime]}
                  ELSE rest
            ref == IF cl.isAnimating THEN handle ELSE animationRef
        IN  IF accepted
            THEN /\ state.totalLines < TickLimit
                 /\ Len(state.grid) > 0
                 /\ LET lastLine == state.grid[Len(state.grid)] IN
                    \E nextLine \in computeNextLine(cl, lastLine, prevLineRef) :
                      LET c1 == [Inst EXCEPT
                                   !.state = StepForward(cl, state, nextLine),
                                   !.gen = [gen EXCEPT !.ticks = @ + 1],
                                   !.prevLineRef = IF cl.reversible THEN <<lastLine>>
                                                   ELSE prevLineRef,
                                   !.frames = fs, !.animationRef = ref]
                      IN  \E c \in Settle(props, props, c1, TRUE, FALSE, FALSE) :
                            SetInst(c)
                 /\ lastEvent' = "Tick"
            ELSE /\ SetInst([Inst EXCEPT !.frames = fs, !.animationRef = ref])
                 /\ lastEvent' = "Frame"
    /\ UNCHANGED <<phase, props, configFixed, scope, call>>

\* The component unmounts: the animation effect's cleanup runs and the
\* instance (its state and refs) is discarded.
Unmount ==
    /\ phase = "mounted"
    /\ phase' = "unmounted"
    /\ frames' = IF props.isAnimating THEN cancelAnimationFrame(frames, animationRef)
                 ELSE frames
    /\ state' = [grid |-> << >>, totalLines |-> 0, bufferedLines |-> << >>]
    /\ hasEverAnimated' = FALSE
    /\ prevLineRef' = << >>
    /\ lastEffectStateRef' = [reversible |-> FALSE, randomInitial |-> FALSE]
    /\ configChanged' = FALSE
    /\ animationRef' = 0
    /\ lastEvent' = "Unmount"
    /\ gen' = [height |-> 0, ticks |-> 0, windowKept |-> TRUE, rowsKept |-> TRUE]
    /\ UNCHANGED <<props, prevConfigRef, configFixed, scope, call>>

Next ==
    \/ Mount
    \/ SetGridSize
    \/ SetRuleNumber
    \/ SetMutationProbability
    \/ SetBoundaryIndex
    \/ SetEffects
    \/ SetPalette
    \/ SetPlaySpeed
    \/ SetIsLargeScreen
    \/ SetIsAnimating
    \/ SetShouldReset
    \/ AnimationFrame
    \/ Unmount

Spec == Init /\ [][Next]_vars

\* The controller with the browser running every pending animation frame
\* callback: a callback that stays pending is eventually called.  The
\* grid's dimensions change through gridSize in the group "window"; the
\* groups "gridSize" and "isLargeScreen" are left out.
InitLive == Init /\ scope \notin {"gridSize", "isLargeScreen"}

NextLive ==
    \/ Mount
    \/ SetGridSize
    \/ SetRuleNumber
    \/ SetMutationProbability
    \/ SetBoundaryIndex
    \/ SetEffects
    \/ SetPalette
    \/ SetPlaySpeed
    \/ SetIsAnimating
    \/ SetShouldReset
    \/ AnimationFrame
    \/ Unmount

SpecLive == InitLive /\ [][NextLive]_vars /\ WF_vars(AnimationFrame)

\* ------------------------------------- the functions applied to all inputs

\* The controller at rest while the functions are applied.
InitFn ==
    /\ phase = "init"
    /\ props \in {p \in InitialProps : ~p.reversible /\ ~p.isAnimating}
    /\ state = [grid |-> << >>, totalLines |-> gridHeight(props),
                bufferedLines |-> << >>]
    /\ hasEverAnimated = FALSE
    /\ prevLineRef = << >>
    /\ lastEffectStateRef = [reversible |-> FALSE, randomInitial |-> FALSE]
    /\ prevConfigRef = currentConfig(props)
    /\ configChanged = FALSE
    /\ animationRef = 0
    /\ frames = {}
    /\ lastEvent = "none"
    /\ gen = [height |-> 0, ticks |-> 0, windowKept |-> TRUE, rowsKept |-> TRUE]
    /\ configFixed = TRUE
    /\ scope = "ruleNumber"
    /\ call = NoCall

ctlVars == <<phase, props, state, hasEverAnimated, prevLineRef, lastEffectStateRef,
             prevConfigRef, configChanged, animationRef, frames, lastEvent, gen,
             configFixed, scope>>

\* For each width up to maxWidth, the props of least gridSize under which
\* the grid is that wide.
Layouts(maxWidth) ==
    LET All == {l \in [gridSize : 1..(2 * maxWidth), isLargeScreen : BOOLEAN] :
                   gridWidth(l) >= 1 /\ gridWidth(l) <= maxWidth}
    IN  {l \in All : \A k \in All :
            gridWidth(k) = gridWidth(l) => l.gridSize <= k.gridSize}

FnProps(l, ruleNumber, boundaryIndex, mutationProbability) ==
    [gridSize |-> l.gridSize, isLargeScreen |-> l.isLargeScreen,
     ruleNumber |-> ruleNumber, boundaryIndex |-> boundaryIndex,
     mutationProbability |-> mutationProbability]

\* Every boundary index, and one past the table.
AllBoundaryIndices == 0..Len(BOUNDARY_MODES)

\* computeNextLineWithRule without mutation and without reversibility, for
\* every rule number, boundary mode and row.
CallPlainRule ==
    \E l \in Layouts(MaxRowWidth), r \in 0..255, b \in AllBoundaryIndices :
      LET p == FnProps(l, r, b, 0) IN
      \E row \in Rows(gridWidth(p)), d \in RowDraws(p, {0}) :
        call' = [op |-> "plainRule", p |-> p, row |-> row, d |-> d,
                 result |-> computeNextLineWithRule(p, d, row, << >>, FALSE)]

\* getNeighbor for every boundary index, every row and every index from one
\* before the row to one past it.
CallNeighbor ==
    \E b \in AllBoundaryIndices, w \in 1..MaxRowWidth :
      \E row \in Rows(w), pos \in (0 - 1)..w :
        \E rnd \in (IF boundaryMode(b) = "randomBoundary" /\ (pos < 0 \/ pos >= w)
                    THEN {0, 1} ELSE {0}) :
          call' = [op |-> "neighbor", boundaryIndex |-> b, row |-> row,
                   pos |-> pos, rnd |-> rnd,
                   result |-> getNeighbor(b, rnd, row, pos, w)]

\* Mutation probabilities (in percent) under which the draw
\* Math.random() < mutationProbability is never, sometimes and always true.
FnMutationProbabilities == {0, 50, 100}

\* computeNextLineWithRule with mutation, for every substituted rule number
\* Math.floor(Math.random() * 256) can give, under wrap and fixed0.
CallMutatedRule ==
    \E l \in Layouts(MaxRowWidth), r \in RuleNumbers, b \in {0, 1},
       m \in FnMutationProbabilities :
      LET p == FnProps(l, r, b, m) IN
      \E row \in Rows(gridWidth(p)), d \in RowDraws(p, 0..255) :
        call' = [op |-> "mutatedRule", p |-> p, row |-> row, d |-> d,
                 result |-> computeNextLineWithRule(p, d, row, << >>, FALSE)]

\* The rule numbers the reversible evaluation is applied with.
ReversibleRules == RuleNumbers \cup {0, 90, 255}

\* computeNextLineWithRule in reversible mode without mutation, under every
\* boundary mode but randomBoundary, for every pair of rows of equal width.
CallReversibleRule ==
    \E l \in Layouts(MaxRowWidth), r \in ReversibleRules,
       b \in {i \in AllBoundaryIndices : boundaryMode(i) # "randomBoundary"} :
      LET p == FnProps(l, r, b, 0) IN
      \E row \in Rows(gridWidth(p)), prev \in Rows(gridWidth(p)),
         d \in RowDraws(p, {0}) :
        call' = [op |-> "reversibleRule", p |-> p, row |-> row, prev |-> prev,
                 result |-> computeNextLineWithRule(p, d, row, <<prev>>, TRUE)]

\* All histories of n rows of w cells.
Histories(w, n) == [1..n -> Rows(w)]

\* applyEffectToStaticGrid for every history and every pair of new flags,
\* under wrap (with and without mutation) and reflect.
CallReinterpret ==
    \E l \in Layouts(MaxHistoryWidth), b \in {0, 3}, n \in 0..MaxHistoryLen,
       applyReversible \in BOOLEAN, applyRandom \in BOOLEAN :
      \E m \in (IF b = 0 THEN MutationProbabilities ELSE {0}) :
        LET p == FnProps(l, 110, b, m) IN
        \E grid \in Histories(gridWidth(p), n) :
          \E result \in applyEffectToStaticGrid(p, MutationRules, grid,
                                                applyReversible, applyRandom) :
            call' = [op |-> "reinterpret", p |-> p, grid |-> grid,
                     applyReversible |-> applyReversible,
                     applyRandom |-> applyRandom, result |-> result]

\* The closure of an animate callback created under layout l.
FnClosure(l, reversible) ==
    [isAnimating |-> TRUE, playSpeed |-> 2, gridSize |-> l.gridSize,
     isLargeScreen |-> l.isLargeScreen, reversible |-> reversible,
     ruleNumber |-> 110, mutationProbability |-> 0, boundaryIndex |-> 0]

\* The animate updater for every history of up to MaxHistoryLen rows (the
\* empty one included), every prior-row memo, with the trailing buffer empty
\* or holding the history's rows.
CallTick ==
    \E l \in Layouts(MaxHistoryWidth), n \in 0..MaxHistoryLen, reversible \in BOOLEAN :
      LET cl == FnClosure(l, reversible) IN
      \E grid \in Histories(gridWidth(cl), n),
         memo \in {<< >>} \cup {<<r>> : r \in Rows(gridWidth(cl))} :
        \E buffer \in {<< >>, grid} :
          LET st == [grid |-> grid, totalLines |-> gridHeight(cl) + Len(buffer),
                     bufferedLines |-> buffer] IN
          \E out \in animateUpdater(cl, st, memo) :
            call' = [op |-> "tick", cl |-> cl, state |-> st, memo |-> memo,
                     out |-> out]

\* generateInitialGrid under every layout of up to MaxSeedWidth columns,
\* with and without randomInitial and reversible, rule 110, wrap.
CallGenerate ==
    \E l \in Layouts(MaxSeedWidth), reversible \in BOOLEAN, randomInitial \in BOOLEAN :
      LET p == [gridSize |-> l.gridSize, isLargeScreen |-> l.isLargeScreen,
                ruleNumber |-> 110, boundaryIndex |-> 0, mutationProbability |-> 0,
                reversible |-> reversible, randomInitial |-> randomInitial] IN
      \E result \in generateInitialGrid(p, {0}) :
        call' = [op |-> "generate", p |-> p, result |-> result]

\* One application per behaviour.
NextFn ==
    \/ call = NoCall /\ CallPlainRule /\ UNCHANGED ctlVars
    \/ call = NoCall /\ CallReinterpret /\ UNCHANGED ctlVars
    \/ call = NoCall /\ CallNeighbor /\ UNCHANGED ctlVars
    \/ call = NoCall /\ CallReversibleRule /\ UNCHANGED ctlVars
    \/ call = NoCall /\ CallTick /\ UNCHANGED ctlVars
    \/ call = NoCall /\ CallMutatedRule /\ UNCHANGED ctlVars
    \/ call = NoCall /\ CallGenerate /\ UNCHANGED ctlVars

SpecFn == InitFn /\ [][NextFn]_vars

\* ------------------------------------------------------------- properties

\* The controller is mounted with isAnimating = false and shouldReset = false.
Static == phase = "mounted" /\ ~props.isAnimating /\ ~props.shouldReset

\* grid is a result of Generate under props p: gridHeight rows, row 0 a seed
\* row chosen by randomInitial, every later row evolved from its predecessor
\* (and, if reversible, from the predecessor's predecessor).
IsFreshGenerate(p, grid) ==
    /\ Len(grid) = gridHeight(p)
    /\ Len(grid) > 0 => grid[1] \in InitialRows(gridWidth(p), p.randomInitial)
    /\ \A i \in 2..Len(grid) :
          grid[i] \in NextRows(p, MutationRules, grid[i - 1],
                               IF p.reversible /\ i >= 3 THEN <<grid[i - 2]>>
                               ELSE << >>,
                               p.reversible)

\* The current {reversible, randomInitial} of props p.
Baseline(p) == [reversible |-> p.reversible, randomInitial |-> p.randomInitial]

\* C1: Rule correctness.  For every ruleNumber in 0..255, every current row
\* and every column x, with mutationProbability = 0 and reversible = false,
\* nextRow[x] is bit p of ruleNumber, where p = 4*left + 2*center + right and
\* left, right are the boundary-resolved neighbours of x.
C1_RuleCorrectness ==
    call.op = "plainRule" =>
        LET W == Len(call.row)
            left(x) == getNeighbor(call.p.boundaryIndex, call.d.lb, call.row, x - 1, W)
            right(x) == getNeighbor(call.p.boundaryIndex, call.d.rb, call.row, x + 1, W)
        IN  /\ Len(call.result) = W
            /\ \A x \in 0..(W - 1) :
                  call.result[x + 1] =
                      (call.p.ruleNumber
                          \div 2 ^ (4 * left(x) + 2 * call.row[x + 1] + right(x))) % 2

\* Rule 110 applied to 0 1 1 between fixed 0 cells gives 1 1 1
\* (patterns 1, 3 and 6, all set in 110 = 01101110b).
C1_Witness ==
    /\ call.op = "plainRule"
    /\ call.p.ruleNumber = 110
    /\ boundaryMode(call.p.boundaryIndex) = "fixed0"
    /\ call.row = <<0, 1, 1>>
    /\ call.result = <<1, 1, 1>>

\* C2: History invariant.  With the configuration held fixed,
\* mutationProbability = 0 and a deterministic boundary mode, in every state
\* reached by mounts, resets and animation ticks, every history row i >= 1
\* is the Rule Evaluator's output for row i-1, and when reversible is true
\* every row i >= 2 is that output XOR row i-2.  (In reversible mode row 1 is
\* left unconstrained here: its second predecessor may have been evicted.)
C2_HistoryInvariant ==
    (/\ phase = "mounted" /\ configFixed
     /\ props.mutationProbability = 0
     /\ boundaryMode(props.boundaryIndex) # "randomBoundary")
    => \A i \in 2..Len(state.grid) :
          LET out == computeNextLineWithRule(
                         props, [mutate |-> FALSE, rule |-> 0, lb |-> 0, rb |-> 0],
                         state.grid[i - 1], << >>, FALSE)
          IN  IF props.reversible
              THEN i >= 3 =>
                     state.grid[i] =
                         [x \in 1..Len(out) |-> (out[x] + state.grid[i - 2][x]) % 2]
              ELSE state.grid[i] = out

\* C3: In reversible mode, whenever StepForward runs on a history of at
\* least two rows, the memo passed as previousRow is the row immediately
\* preceding the last row of the history (grid[length-2]); on the first tick
\* after a mount, a reset, a Reinterpret or a regeneration as on later ticks.
C3_MemoPrecedesLastRow ==
    [][(/\ lastEvent' = "Tick"
        /\ props.reversible
        /\ Len(state.grid) >= 2)
       => prevLineRef = <<state.grid[Len(state.grid) - 1]>>]_vars

\* C4: History length.  After Generate with gridHeight = H the history has
\* exactly H rows and totalLines = H; after k subsequent StepForward ticks
\* the history still has exactly H rows and totalLines = H + k.
C4_HistoryLength ==
    phase = "mounted" =>
        /\ gen.height >= 1
        /\ Len(state.grid) = gen.height
        /\ state.totalLines = gen.height + gen.ticks

\* Two ticks after a Generate of two rows.
C4_Witness ==
    /\ phase = "mounted"
    /\ lastEvent = "Tick"
    /\ gen.height = 2 /\ gen.ticks = 2
    /\ gridHeight(props) = 2
    /\ Len(state.grid) = 2 /\ state.totalLines = 4

\* C5: Reinterpret preserves the anchor.  For every non-empty history and
\* every pair of new reversible / randomInitial values, the result has as
\* many rows as the input and its row 0 is cell for cell the input's row 0.
C5_ReinterpretKeepsAnchor ==
    (call.op = "reinterpret" /\ Len(call.grid) > 0) =>
        /\ Len(call.result) = Len(call.grid)
        /\ Len(call.result[1]) = Len(call.grid[1])
        /\ \A x \in 1..Len(call.grid[1]) : call.result[1][x] = call.grid[1][x]

\* A history of three rows whose later rows the reinterpretation rewrites,
\* under randomInitial = true, from a row 0 that is not the centre seed.
C5_Witness ==
    /\ call.op = "reinterpret"
    /\ Len(call.grid) = 3
    /\ call.applyReversible /\ call.applyRandom
    /\ call.grid[1] = <<1, 0>>
    /\ call.result[1] = <<1, 0>>
    /\ call.result # call.grid

\* C6: Toggle after animation.  When the controller is Static with a
\* non-empty history and hasEverAnimated = true, a change to only reversible
\* and/or randomInitial leaves the history equal to Reinterpret of the
\* previous history: row 0 is the previous row 0, not a fresh seed row.
C6_ReinterpretAfterAnimation ==
    [][(/\ Static /\ Len(state.grid) > 0 /\ hasEverAnimated
        /\ lastEvent' = "SetEffects")
       => /\ state'.grid \in applyEffectToStaticGrid(props', MutationRules, state.grid,
                                                     props'.reversible,
                                                     props'.randomInitial)
          /\ state'.grid[1] = state.grid[1]]_vars

\* C7: Toggle before any animation.  When the controller is Static with a
\* non-empty history and hasEverAnimated = false, a change to only reversible
\* and/or randomInitial replaces the history by a fresh Generate under the
\* new settings, and the recorded baseline becomes the new
\* {reversible, randomInitial}.
C7_GenerateBeforeAnimation ==
    [][(/\ Static /\ Len(state.grid) > 0 /\ ~hasEverAnimated
        /\ lastEvent' = "SetEffects")
       => /\ IsFreshGenerate(props', state'.grid)
          /\ lastEffectStateRef' = Baseline(props')]_vars

\* randomInitial and reversible were switched on before any animation: the
\* new row 0 is a random row, not the centre seed.
C7_Witness ==
    /\ Static /\ lastEvent = "SetEffects" /\ ~hasEverAnimated
    /\ props.randomInitial /\ props.reversible
    /\ Len(state.grid) = gridHeight(props)
    /\ state.grid[1] \notin InitialRows(gridWidth(props), FALSE)
    /\ lastEffectStateRef = Baseline(props)

\* C8: When the controller is Static, a change to gridSize, ruleNumber,
\* boundary mode or mutationProbability replaces the history with a fresh
\* Generate under the new configuration: the grid has the new gridHeight
\* rows, totalLines = gridHeight and the trailing buffer is empty, whether
\* or not animation has ever occurred.
C8_StaticConfigChangeRegenerates ==
    [][(/\ Static
        /\ lastEvent' \in {"SetGridSize", "SetRuleNumber", "SetBoundaryIndex",
                           "SetMutationProbability"})
       => /\ IsFreshGenerate(props', state'.grid)
          /\ state'.totalLines = gridHeight(props')
          /\ state'.bufferedLines = << >>]_vars

\* mutationProbability was raised while Static after an animation: the
\* history is one generated under substituted rules.
C8_Witness ==
    /\ Static /\ lastEvent = "SetMutationProbability" /\ hasEverAnimated
    /\ props.mutationProbability = 100
    /\ IsFreshGenerate(props, state.grid)
    /\ state.totalLines = gridHeight(props)
    /\ state.bufferedLines = << >>

\* C9: Explicit reset, from any controller state (animating included): once
\* the reset signal is processed the history is a fresh Generate with
\* gridHeight rows, totalLines = gridHeight, the trailing buffer and the
\* prior-row memo are empty, and the recorded baseline is the current
\* {reversible, randomInitial}.
C9_ResetRegenerates ==
    [][(/\ phase = "mounted" /\ phase' = "mounted"
        /\ ~props.shouldReset /\ props'.shouldReset)
       => /\ IsFreshGenerate(props', state'.grid)
          /\ state'.totalLines = gridHeight(props')
          /\ state'.bufferedLines = << >>
          /\ prevLineRef' = << >>
          /\ lastEffectStateRef' = Baseline(props')]_vars

\* A reset processed while animating in reversible mode.
C9_Witness ==
    /\ phase = "mounted" /\ lastEvent = "SetShouldReset" /\ props.shouldReset
    /\ props.isAnimating /\ props.reversible /\ hasEverAnimated
    /\ IsFreshGenerate(props, state.grid)
    /\ state.totalLines = gridHeight(props)
    /\ prevLineRef = << >>

\* C10: While animating with no reset signal, no configuration change alters
\* or discards rows already produced: the only history change is a
\* StepForward tick, after which the history is the old history without its
\* oldest row followed by one new row, the surviving rows unchanged and in
\* the same order.
C10_AnimatingKeepsHistory ==
    [][(/\ phase = "mounted" /\ phase' = "mounted"
        /\ props.isAnimating /\ props'.isAnimating
        /\ ~props.shouldReset /\ ~props'.shouldReset)
       => IF lastEvent' = "Tick"
          THEN /\ Len(state'.grid) = Len(state.grid)
               /\ \A i \in 1..(Len(state.grid) - 1) :
                     state'.grid[i] = state.grid[i + 1]
          ELSE state'.grid = state.grid]_vars

\* The rule number was changed while animating, after a tick.
C10_Witness ==
    /\ phase = "mounted" /\ lastEvent = "SetRuleNumber"
    /\ props.isAnimating /\ ~props.shouldReset
    /\ props.ruleNumber = 30
    /\ gen.ticks >= 1
    /\ state.totalLines = gen.height + gen.ticks

\* C11: Animating -> Static.  When the animate-disabled signal arrives with
\* no reset, the history, totalLines and the trailing buffer after the
\* transition are what they were at the last completed tick, also when
\* reversible or randomInitial was toggled during the animation.
C11_StopKeepsHistory ==
    [][(/\ phase = "mounted" /\ phase' = "mounted"
        /\ props.isAnimating /\ ~props'.isAnimating
        /\ ~props.shouldReset /\ ~props'.shouldReset)
       => /\ state'.grid = state.grid
          /\ state'.totalLines = state.totalLines
          /\ state'.bufferedLines = state.bufferedLines]_vars

\* C12: The has-ever-animated flag is false until the first animate-enabled
\* signal, becomes true as soon as animation is enabled, and is never
\* cleared afterwards: not by stopping, by a configuration change, by a
\* static regeneration or by a Reinterpret.
C12_HasEverAnimatedLatches ==
    [][phase' = "mounted"
       => hasEverAnimated' = (hasEverAnimated \/ props'.isAnimating)]_vars

\* The flag is still set after a static change of the rule number that
\* regenerated the history.
C12_Witness ==
    /\ Static /\ hasEverAnimated
    /\ lastEvent = "SetRuleNumber"
    /\ gen.ticks = 0 /\ state.totalLines = gridHeight(props)

\* C13: An explicit reset clears the has-ever-animated flag: after
\* animating, stopping and then resetting, has-ever-animated is false, so
\* that a later static toggle of reversible / randomInitial takes the
\* Generate branch.
C13_ResetClearsHasEverAnimated ==
    [][(/\ phase = "mounted" /\ phase' = "mounted"
        /\ ~props.isAnimating /\ ~props'.isAnimating
        /\ ~props.shouldReset /\ props'.shouldReset)
       => ~hasEverAnimated']_vars

\* C14: The prior-row memo is empty after every full regeneration of the
\* history (explicit reset, static change of gridSize, ruleNumber, boundary
\* or mutationProbability, static toggle-triggered Generate): until the
\* first tick on the new history no row of a discarded history is held.
C14_MemoEmptyAfterRegeneration ==
    (phase = "mounted" /\ gen.ticks = 0) => prevLineRef = << >>

\* C15: Deterministic boundary modes.  For every row of width W >= 1,
\* neighbor(row, -1) and neighbor(row, W) are row[W-1] and row[0] under wrap,
\* 0 and 0 under fixed0, 1 and 1 under fixed1, 0 and 1 under gradientBoundary.
C15_DeterministicBoundaries ==
    (call.op = "neighbor" /\ (call.pos < 0 \/ call.pos >= Len(call.row))) =>
        LET W == Len(call.row)
            mode == boundaryMode(call.boundaryIndex)
            atLeft == call.pos < 0
        IN  /\ mode = "wrap" =>
                 call.result = (IF atLeft THEN call.row[W] ELSE call.row[1])
            /\ mode = "fixed0" => call.result = 0
            /\ mode = "fixed1" => call.result = 1
            /\ mode = "gradientBoundary" =>
                 call.result = (IF atLeft THEN 0 ELSE 1)

\* Under gradientBoundary the lookup one past a row of three 0 cells reads 1.
C15_Witness ==
    /\ call.op = "neighbor"
    /\ boundaryMode(call.boundaryIndex) = "gradientBoundary"
    /\ call.row = <<0, 0, 0>> /\ call.pos = 3
    /\ call.result = 1

\* C16: Reflect boundary.  For every row of width W > 1,
\* neighbor(row, -1) = row[1] and neighbor(row, W) = row[W-2]; for W = 1 both
\* out-of-range lookups are clamped into range and return row[0].
C16_ReflectBoundary ==
    (/\ call.op = "neighbor"
     /\ boundaryMode(call.boundaryIndex) = "reflect"
     /\ (call.pos < 0 \/ call.pos >= Len(call.row))) =>
        LET W == Len(call.row) IN
        IF W > 1
        THEN call.result = (IF call.pos < 0 THEN call.row[2] ELSE call.row[W - 1])
        ELSE call.result = call.row[1]

\* Under reflect the lookup one past 0 1 0 reads row[1] = 1, not the edge.
C16_Witness ==
    /\ call.op = "neighbor"
    /\ boundaryMode(call.boundaryIndex) = "reflect"
    /\ call.row = <<0, 1, 0>> /\ call.pos = 3
    /\ call.result = 1

\* C17: For every boundary mode (randomBoundary included) and every index in
\* [0, width), neighbor(row, index) is row[index]; and for a boundary
\* selector that names none of the six modes every lookup returns what wrap
\* returns.
C17_InRangeAndFallback ==
    call.op = "neighbor" =>
        LET W == Len(call.row) IN
        /\ (call.pos >= 0 /\ call.pos < W) => call.result = call.row[call.pos + 1]
        /\ call.boundaryIndex >= Len(BOUNDARY_MODES) =>
              call.result = call.row[((call.pos + W) % W) + 1]

\* A selector outside the table wraps: one before 0 0 1 reads the last cell.
C17_Witness ==
    /\ call.op = "neighbor"
    /\ call.boundaryIndex = Len(BOUNDARY_MODES)
    /\ call.row = <<0, 0, 1>> /\ call.pos = 0 - 1
    /\ call.result = 1

\* C18: Reversibility round trip.  With reversible = true,
\* mutationProbability = 0 and a deterministic boundary mode, for all rows
\* row_n and row_{n-1} of equal width, nextRow(row_n, row_{n-1}) XOR-ed cell
\* by cell with the plain rule output for row_n is row_{n-1}.
C18_ReversibleRoundTrip ==
    call.op = "reversibleRule" =>
        LET W == Len(call.row)
            left(x) == getNeighbor(call.p.boundaryIndex, 0, call.row, x - 1, W)
            right(x) == getNeighbor(call.p.boundaryIndex, 0, call.row, x + 1, W)
            plain(x) == (call.p.ruleNumber
                            \div 2 ^ (4 * left(x) + 2 * call.row[x + 1] + right(x))) % 2
        IN  /\ Len(call.result) = W
            /\ \A x \in 0..(W - 1) :
                  (call.result[x + 1] + plain(x)) % 2 = call.prev[x + 1]

\* Rule 90 under wrap on 0 1 0 gives 1 0 1; with the previous row 1 1 0 the
\* reversible output is 0 1 1, and 0 1 1 XOR 1 0 1 is 1 1 0 again.
C18_Witness ==
    /\ call.op = "reversibleRule"
    /\ call.p.ruleNumber = 90
    /\ boundaryMode(call.p.boundaryIndex) = "wrap"
    /\ call.row = <<0, 1, 0>> /\ call.prev = <<1, 1, 0>>
    /\ call.result = <<0, 1, 1>>

\* C19: Generate is deterministic under non-random configuration.  With
\* randomInitial = false, mutationProbability = 0 and a boundary mode other
\* than randomBoundary, every Generate (on mount, on reset, on a static
\* configuration change or toggle) produces the one history its gridSize,
\* width, ruleNumber, boundary mode and reversible flag determine, whatever
\* animation, reset or toggle came before.
C19_GenerateDeterministic ==
    [][(/\ phase' = "mounted"
        /\ \/ phase = "init"
           \/ ~props.shouldReset /\ props'.shouldReset
           \/ /\ Static
              /\ lastEvent' \in {"SetGridSize", "SetRuleNumber", "SetBoundaryIndex",
                                 "SetMutationProbability", "SetEffects"}
        /\ ~props'.randomInitial
        /\ props'.mutationProbability = 0
        /\ boundaryMode(props'.boundaryIndex) # "randomBoundary")
       => /\ Cardinality(generateInitialGrid(props', MutationRules)) = 1
          /\ state'.grid \in generateInitialGrid(props', MutationRules)]_vars

\* A reset after an animation under rule 110, wrap, reversible, three rows
\* of two cells: the history is the one these settings determine.
C19_Witness ==
    /\ phase = "mounted" /\ lastEvent = "SetShouldReset" /\ props.shouldReset
    /\ hasEverAnimated /\ ~props.isAnimating
    /\ props.reversible /\ ~props.randomInitial
    /\ props.ruleNumber = 110 /\ props.gridSize = 3 /\ ~props.isLargeScreen
    /\ props.mutationProbability = 0 /\ boundaryMode(props.boundaryIndex) = "wrap"
    /\ state.grid = <<<<0, 1>>, <<1, 1>>, <<0, 1>>>>

\* C20: Trailing buffer bound.  In every reachable state the trailing buffer
\* holds at most 2 * gridHeight rows; each StepForward appends the new row at
\* the end and drops rows from the front beyond that cap.
C20_BufferBound ==
    [][phase' = "mounted"
       => /\ Len(state'.bufferedLines) <= 2 * gridHeight(props')
          /\ lastEvent' = "Tick" =>
               LET full == Append(state.bufferedLines,
                                  state'.grid[Len(state'.grid)])
                   cap == 2 * gridHeight(props)
               IN  state'.bufferedLines =
                       IF Len(full) <= cap THEN full
                       ELSE SubSeq(full, Len(full) - cap + 1, Len(full))]_vars

\* C20, amended: each StepForward appends the new row at the end of the
\* trailing buffer and drops rows from the front beyond 2 * gridHeight, so
\* right after a tick the buffer holds at most 2 * gridHeight rows; no other
\* step changes the buffer except by clearing it; and k ticks after the
\* buffer was last cleared, with gridHeight unchanged since, it holds
\* min(k, 2 * gridHeight) rows.
C20_BufferBoundAfterTick ==
    [][phase' = "mounted"
       => /\ IF lastEvent' = "Tick"
             THEN LET full == Append(state.bufferedLines,
                                     state'.grid[Len(state'.grid)])
                      cap == 2 * gridHeight(props)
                  IN  /\ state'.bufferedLines =
                             IF Len(full) <= cap THEN full
                             ELSE SubSeq(full, Len(full) - cap + 1, Len(full))
                      /\ Len(state'.bufferedLines) <= cap
             ELSE state'.bufferedLines \in {state.bufferedLines, << >>}
          /\ gen'.windowKept =>
               /\ gen'.height = gridHeight(props')
               /\ Len(state'.bufferedLines) =
                      (IF gen'.ticks <= 2 * gen'.height THEN gen'.ticks
                       ELSE 2 * gen'.height)]_vars

\* The third tick on a window of one row: the buffer is at its cap of two
\* rows and the oldest of the three produced rows has been dropped.
C20_Witness ==
    /\ phase = "mounted" /\ lastEvent = "Tick"
    /\ gridHeight(props) = 1
    /\ gen.windowKept /\ gen.height = 1 /\ gen.ticks = 3
    /\ Len(state.bufferedLines) = 2

C22_Cancellation ==
    [][/\ (phase' = "mounted" /\ ~props'.isAnimating) => frames' = {}
       /\ phase' = "unmounted" => frames' = {}
       /\ lastEvent' \in {"Tick", "Frame"} =>
             /\ phase = "mounted" /\ props.isAnimating /\ props'.isAnimating
             /\ \E f \in frames : f.id = animationRef
       /\ (phase' = "mounted" /\ ~props.isAnimating /\ ~props'.isAnimating
           /\ phase = "mounted")
          => (state'.totalLines > state.totalLines
                => state'.totalLines = gridHeight(props'))]_vars

\* The animation is stopped after a tick, with a callback pending at the
\* moment of the stop: the cleanup cancelled it.
C22_Witness ==
    /\ phase = "mounted" /\ lastEvent = "SetIsAnimating" /\ ~props.isAnimating
    /\ gen.ticks >= 1
    /\ animationRef # 0
    /\ frames = {}

\* C23: Tick throttling.  A scheduled callback performs a StepForward only
\* if the time elapsed since the last accepted tick (or since the animation
\* effect started) is at least 1000 / playSpeed ms, and at least 1000 ms
\* when playSpeed = 0; an accepted tick performs exactly one StepForward and
\* resets the reference time to that tick's time, and a rejected tick
\* changes nothing but reschedules.
C23_TickThrottling ==
    [][lastEvent' \in {"Tick", "Frame"} =>
         \E f \in frames :
           LET elapsed == f.elapsed + TimeStep
               due == IF props.playSpeed = 0 THEN elapsed >= 1000
                      ELSE elapsed * props.playSpeed >= 1000
           IN  /\ frames = {f}
               /\ lastEvent' = "Tick" <=> due
               /\ \E g \in frames' :
                     /\ frames' = {g}
                     /\ g.p = f.p
                     /\ animationRef' = g.id
                     /\ g.elapsed = IF due THEN 0 ELSE elapsed
               /\ due =>
                     /\ state'.totalLines = state.totalLines + 1
                     /\ Len(state'.grid) = Len(state.grid)
                     /\ \A i \in 1..(Len(state.grid) - 1) :
                           state'.grid[i] = state.grid[i + 1]
                     /\ Len(state'.bufferedLines) <= Len(state.bufferedLines) + 1
               /\ ~due =>
                     /\ state' = state
                     /\ prevLineRef' = prevLineRef
                     /\ hasEverAnimated' = hasEverAnimated
                     /\ lastEffectStateRef' = lastEffectStateRef
                     /\ prevConfigRef' = prevConfigRef
                     /\ gen' = gen]_vars

\* With playSpeed = 0 a frame 500 ms after the effect started was rejected
\* and the frame at 1000 ms is accepted: one row appended, the reference
\* time reset.
C23_Witness ==
    /\ phase = "mounted" /\ lastEvent = "Tick" /\ props.playSpeed = 0
    /\ gen.ticks = 1
    /\ state.totalLines = gridHeight(props) + 1
    /\ \E f \in frames : frames = {f} /\ f.elapsed = 0

\* C24: Mutation is per row.  For every row computed by the Rule Evaluator
\* there is one effective rule number r in 0..255 such that every cell of
\* that row is computed from the bit pattern of r (r is either ruleNumber or
\* one substituted value, decided once for the whole row), and when
\* mutationProbability = 0 that r is always ruleNumber.
C24_MutationPerRow ==
    call.op = "mutatedRule" =>
        LET W == Len(call.row)
            b == call.p.boundaryIndex
            pattern(x) ==
                4 * getNeighbor(b, call.d.lb, call.row, x - 1, W)
                + 2 * call.row[x + 1]
                + getNeighbor(b, call.d.rb, call.row, x + 1, W)
            Fits(r) == \A x \in 0..(W - 1) :
                          call.result[x + 1] = (r \div 2 ^ pattern(x)) % 2
            Candidates == IF call.p.mutationProbability = 0
                          THEN {call.p.ruleNumber}
                          ELSE {call.p.ruleNumber, call.d.rule}
        IN  /\ Len(call.result) = W
            /\ \E r \in Candidates : r \in 0..255 /\ Fits(r)

\* Rule 110 maps 0 1 0 (wrap) to 1 1 0; with the substituted rule 2
\* (only pattern 001 set) the whole row is 1 0 0.
C24_Witness ==
    /\ call.op = "mutatedRule"
    /\ call.p.ruleNumber = 110 /\ call.p.boundaryIndex = 0
    /\ call.p.mutationProbability = 50
    /\ call.d.mutate /\ call.d.rule = 2
    /\ call.row = <<0, 1, 0>>
    /\ call.result = <<1, 0, 0>>

\* C25: Rectangular output.  In every reachable state after mount, for any
\* sequence of configuration changes (gridSize and the wide/narrow layout
\* flag included, while animating or while static), start/stop and reset
\* signals, every row of the history has exactly the current gridWidth
\* cells and, whenever the controller is Static, the history has exactly
\* the current gridHeight rows.
C25_RectangularOutput ==
    phase = "mounted" =>
        /\ \A i \in 1..Len(state.grid) : Len(state.grid[i]) = gridWidth(props)
        /\ Static => Len(state.grid) = gridHeight(props)

\* C26: Presentation-only changes do not touch evolution state.  A change to
\* only colorIndex and/or invertColors, in any controller state, leaves the
\* history, totalLines, trailing buffer and prior-row memo exactly unchanged
\* (in particular it does not discard rows produced by animation).
C26_PaletteKeepsEvolutionState ==
    [][(/\ phase = "mounted" /\ phase' = "mounted"
        /\ props' # props
        /\ props' = [props EXCEPT !.colorIndex = props'.colorIndex,
                                  !.invertColors = props'.invertColors])
       => /\ state'.grid = state.grid
          /\ state'.totalLines = state.totalLines
          /\ state'.bufferedLines = state.bufferedLines
          /\ prevLineRef' = prevLineRef]_vars

\* C27: Rule 90 is XOR of neighbours.  With ruleNumber = 90, reversible =
\* false, mutationProbability = 0 and boundary mode wrap, for every row and
\* column x, nextRow[x] = row[(x-1) mod W] XOR row[(x+1) mod W]; in
\* particular the width-3 row [1,0,1] maps to [1,0,1].
C27_Rule90IsXor ==
    (/\ call.op = "plainRule"
     /\ call.p.ruleNumber = 90
     /\ call.p.mutationProbability = 0
     /\ boundaryMode(call.p.boundaryIndex) = "wrap")
    => LET W == Len(call.row) IN
       /\ Len(call.result) = W
       /\ \A x \in 0..(W - 1) :
             call.result[x + 1] =
                 (IF call.row[((x + W - 1) % W) + 1] = call.row[((x + 1) % W) + 1]
                  THEN 0 ELSE 1)
       /\ call.row = <<1, 0, 1>> => call.result = <<1, 0, 1>>

\* The spec's example: rule 90 under wrap applied to 1 0 1.
C27_Witness ==
    /\ call.op = "plainRule"
    /\ call.p.ruleNumber = 90
    /\ boundaryMode(call.p.boundaryIndex) = "wrap"
    /\ call.row = <<1, 0, 1>>
    /\ call.result = <<1, 0, 1>>

\* C28: Seed row.  Every history produced by Generate with randomInitial =
\* false has as row 0 a row of gridWidth cells with exactly one cell on, at
\* index floor(gridWidth / 2) (e.g. [0,0,1,0,0] for width 5), and with
\* randomInitial = true row 0 is some row of gridWidth binary cells.
C28_SeedRow ==
    call.op = "generate" =>
        LET W == gridWidth(call.p)
            row0 == call.result[1]
        IN  /\ Len(call.result) >= 1
            /\ Len(row0) = W
            /\ \A x \in 0..(W - 1) : row0[x + 1] \in {0, 1}
            /\ ~call.p.randomInitial =>
                  /\ Cardinality({x \in 0..(W - 1) : row0[x + 1] = 1}) = 1
                  /\ \A x \in 0..(W - 1) : row0[x + 1] = 1 <=> 2 * x \in {W - 1, W}
            /\ (W = 5 /\ ~call.p.randomInitial) => row0 = <<0, 0, 1, 0, 0>>

\* The spec's example: the seed row of a history of width 5.
C28_Witness ==
    /\ call.op = "generate"
    /\ ~call.p.randomInitial
    /\ gridWidth(call.p) = 5
    /\ call.result[1] = <<0, 0, 1, 0, 0>>

\* C29: Baseline tracking.  The recorded {reversible, randomInitial}
\* baseline is never modified while animating (absent a reset), and whenever
\* the controller is Static with a non-empty history and all pending
\* reactions have been applied, the baseline equals the current
\* {reversible, randomInitial}, so the same toggle is never reconciled twice.
C29_BaselineTracking ==
    [][/\ (/\ phase = "mounted" /\ phase' = "mounted"
           /\ props.isAnimating /\ props'.isAnimating
           /\ ~props'.shouldReset)
          => lastEffectStateRef' = lastEffectStateRef
       /\ (/\ phase' = "mounted"
           /\ ~props'.isAnimating /\ ~props'.shouldReset
           /\ Len(state'.grid) > 0)
          => /\ lastEffectStateRef' = [reversible |-> props'.reversible,
                                       randomInitial |-> props'.randomInitial]
             /\ (props'.reversible = props.reversible
                 /\ props'.randomInitial = props.randomInitial
                 /\ Static /\ Len(state.grid) > 0)
                => lastEffectStateRef' = lastEffectStateRef]_vars

\* The animation is stopped after a tick taken with reversible = true: the
\* controller is Static and the baseline records reversible = true.
C29_Witness ==
    /\ Static /\ lastEvent = "SetIsAnimating"
    /\ hasEverAnimated /\ gen.ticks >= 1
    /\ props.reversible
    /\ Len(state.grid) > 0
    /\ lastEffectStateRef = [reversible |-> TRUE, randomInitial |-> FALSE]

C31_BinaryCells ==
    phase = "mounted" =>
        /\ \A i \in 1..Len(state.grid) :
              \A x \in 1..Len(state.grid[i]) : state.grid[i][x] \in {0, 1}
        /\ \A i \in 1..Len(state.bufferedLines) :
              \A x \in 1..Len(state.bufferedLines[i]) :
                  state.bufferedLines[i][x] \in {0, 1}

\* A reversible tick after the grid became wider during the animation: the
\* new row has more cells than the row it was computed from, so the centre
\* cell and the prior-row memo were read outside their rows.
C31_Witness ==
    /\ phase = "mounted" /\ lastEvent = "Tick"
    /\ props.reversible /\ gen.ticks >= 2
    /\ Len(state.grid) >= 2
    /\ Len(state.grid[Len(state.grid)]) > Len(state.grid[Len(state.grid) - 1])
    /\ prevLineRef # << >>
    /\ Len(prevLineRef[1]) < Len(state.grid[Len(state.grid)])
    /\ \A x \in 1..Len(state.grid[Len(state.grid)]) :
          state.grid[Len(state.grid)][x] \in {0, 1}

\* C32: Reinterpret is a function of row 0, the length and the new
\* reversible flag only.  With mutationProbability = 0 and a deterministic
\* boundary mode, Reinterpret is idempotent
\* (Reinterpret(Reinterpret(h, r), r) = Reinterpret(h, r)), its result does
\* not depend on the newRandomInitial argument, and for a history h produced
\* by Generate with flag r under the same rule and boundary,
\* Reinterpret(h, r) = h.
C32_ReinterpretFunctionOfRow0 ==
    /\ (/\ call.op = "reinterpret"
        /\ call.p.mutationProbability = 0
        /\ boundaryMode(call.p.boundaryIndex) # "randomBoundary")
       => LET r == call.applyReversible
              n == Len(call.grid)
              sameRow0 == [i \in 1..n |-> call.grid[1]]
          IN  /\ applyEffectToStaticGrid(call.p, {0}, call.grid, r, call.applyRandom)
                     = {call.result}
              /\ applyEffectToStaticGrid(call.p, {0}, call.result, r, call.applyRandom)
                     = {call.result}
              /\ applyEffectToStaticGrid(call.p, {0}, call.grid, r, ~call.applyRandom)
                     = {call.result}
              /\ applyEffectToStaticGrid(call.p, {0}, sameRow0, r, call.applyRandom)
                     = {call.result}
              /\ Len(call.result) = n
              /\ n >= 1 => call.result[1] = call.grid[1]
    /\ call.op = "generate"
       => applyEffectToStaticGrid(call.p, {0}, call.result, call.p.reversible,
                                  call.p.randomInitial) = {call.result}

\* Reinterpret with the reversible flag of a three-row history under rule
\* 110, wrap, that is not a fixed point: the rows after the first change.
C32_Witness ==
    /\ call.op = "reinterpret"
    /\ call.p.mutationProbability = 0 /\ boundaryMode(call.p.boundaryIndex) = "wrap"
    /\ call.applyReversible
    /\ call.grid = <<<<0, 1>>, <<0, 0>>, <<0, 0>>>>
    /\ call.result = <<<<0, 1>>, <<1, 1>>, <<0, 1>>>>

\* C33: Single scheduler.  At every moment at most one animation callback
\* is pending, also across re-subscriptions of the animation effect caused
\* by playSpeed, gridHeight or rule/reversible/boundary changes while
\* animating; the stored scheduling handle always identifies that one
\* pending callback (which was created by the current render's effect), so
\* two tick chains never run concurrently and no tick performs more than one
\* StepForward.
C33_SingleScheduler ==
    [][/\ Cardinality(frames') <= 1
       /\ \A f \in frames' :
             /\ phase' = "mounted" /\ props'.isAnimating
             /\ f.id = animationRef'
             /\ f.p = animateClosure(props')
       /\ (phase' = "mounted" /\ props'.isAnimating) => Cardinality(frames') = 1
       /\ lastEvent' = "Tick" =>
             /\ gen'.ticks = gen.ticks + 1
             /\ state'.totalLines = state.totalLines + 1]_vars

\* playSpeed changes during an animation that has already ticked: the
\* effect re-subscribed and the one pending callback is the new one, its
\* reference time reset.
C33_Witness ==
    /\ phase = "mounted" /\ lastEvent = "SetPlaySpeed" /\ props.isAnimating
    /\ props.playSpeed = 0
    /\ gen.ticks >= 1
    /\ \E f \in frames :
          frames = {f} /\ f.id = animationRef /\ f.p.playSpeed = 0 /\ f.elapsed = 0

\* C34: Animation progress.  If animation stays enabled, the configuration
\* and playSpeed stay fixed, and scheduled callbacks keep firing with an
\* advancing clock, then a StepForward eventually occurs and totalLines
\* increases without bound (here: up to TickLimit, where the model stops
\* accepting ticks); the controller never reaches a state where it is
\* animating with no pending callback.
C34_AnimationProgress ==
    /\ []((phase = "mounted" /\ props.isAnimating) => frames # {})
    /\ (/\ <>[](phase = "mounted" /\ props.isAnimating)
        /\ <>[][props' = props]_vars)
       => <>[](state.totalLines = TickLimit /\ gen.ticks >= 1)

\* The animation has run up to the tick limit and its next callback is
\* pending.
C34_Witness ==
    /\ phase = "mounted" /\ props.isAnimating /\ lastEvent = "Tick"
    /\ state.totalLines = TickLimit
    /\ gen.ticks >= 2
    /\ frames # {}

====
